---------------------------- MODULE Spec2Model ----------------------------
(***************************************************************************)
(* Model of src/main.py: extract_playlist_tracks(playlist_url), the export *)
(* of a remote playlist into the de-duplicated CSV ledger                  *)
(* playlist_export.csv.                                                    *)
(*                                                                         *)
(* Strings are TLA+ strings; a URL is a sequence of string chunks chosen   *)
(* so that the two markers the code searches for ("open.spotify.com/"      *)
(* followed by "playlist/", and "?") are chunks of their own.  The ledger  *)
(* file is the sequence of rows csv.reader yields for it (each row a       *)
(* sequence of strings); csv.writer/csv.reader quoting is library code and *)
(* is not unfolded.  An index is written as its decimal string.            *)
(***************************************************************************)
EXTENDS Naturals, Sequences, FiniteSets, TLC

VARIABLES
    file,               \* playlist_export.csv: [exists, rows]
    remote,             \* the playlist at the service: [known, items]; known
                        \* says it still holds the items last fetched
    pc,                 \* per invocation: position in extract_playlist_tracks
    url,                \* playlist_url
    playlist_id,        \* playlist_id (line 72)
    results_next,       \* results['next'] is not None
    page_no,            \* number of pages fetched so far
    tracks,             \* tracks (lines 80, 85)
    file_exists,        \* file_exists (line 105)
    existing_entries,   \* existing_entries (lines 102, 114, 120)
    new_unique_tracks,  \* new_unique_tracks (lines 116-120)
    outcome,            \* how the last run of the invocation ended
    report,             \* the two counts printed at lines 140-141
    ledger0,            \* history: the file when the current run started
    read_len,           \* history: the number of rows the run's read saw
    prev                \* history: result of the run before the current one,
                        \* kept while the playlist is what that run fetched

vars == <<file, remote, pc, url, playlist_id, results_next, page_no, tracks,
          file_exists, existing_entries, new_unique_tracks, outcome, report,
          ledger0, read_len, prev>>

locals == <<url, playlist_id, results_next, page_no, tracks, file_exists,
            existing_entries, new_unique_tracks>>

-----------------------------------------------------------------------------
(* Bounds *)

MaxBatch == 4
PageSize == 2
MaxUrlLen == 4
MaxLedgerRows == 3
MaxLedgerBatch == 3

-----------------------------------------------------------------------------
(* Data *)

Domain == "open.spotify.com/"
Marker == "playlist/"
Query == "?"

HeaderRow == <<"Index", "Track">>

\* item['track'] is None (line 94)
NullItem == [none |-> TRUE, name |-> "", artists |-> <<>>]

TrackItem(n, a) == [none |-> FALSE, name |-> n, artists |-> a]

\* Two of the tracks format to the same descriptor "A - x, y".
Items ==
    { NullItem,
      TrackItem("A", <<"x">>),
      TrackItem("A", <<"x", "y">>),
      TrackItem("A", <<"x, y">>),
      TrackItem("B", <<>>) }

LedgerItems == { NullItem, TrackItem("A", <<"x">>), TrackItem("B", <<>>) }

\* A playlist longer than one page.
LongPlaylist == [i \in 1..(PageSize + 1) |-> TrackItem("B", <<>>)]

SeqsUpTo(S, n) == UNION { [1..k -> S] : k \in 0..n }

Playlists == SeqsUpTo(Items, MaxBatch)
LedgerPlaylists == SeqsUpTo(LedgerItems, MaxLedgerBatch)
ConcPlaylists ==
    { <<TrackItem("A", <<"x">>)>>,
      <<TrackItem("B", <<>>), TrackItem("A", <<"x">>)>>,
      LongPlaylist }
UrlPlaylists == { <<>>, LongPlaylist }

UrlChunks == { Domain, Marker, Query, "id" }
AllUrls == SeqsUpTo(UrlChunks, MaxUrlLen)

GoodUrl == <<"https://", Domain, Marker, "id", Query, "si=1">>
SomeUrls ==
    { GoodUrl,
      <<"https://", Domain, Marker>>,
      <<"https://", "example.com/", "not-a-playlist">> }

\* Ledger contents a user or an earlier tool may have left behind.
LedgerRows == { HeaderRow, <<"7">>, <<"1", "A - x">> }

Ledgers ==
    { [exists |-> FALSE, rows |-> <<>>] } \cup
    { [exists |-> TRUE, rows |-> r] : r \in SeqsUpTo(LedgerRows, MaxLedgerRows) }

AbsentFile == [exists |-> FALSE, rows |-> <<>>]

-----------------------------------------------------------------------------
(* Pure functions of the code *)

\* "open.spotify.com/playlist/" in playlist_url  (line 66)
HasMarker(u) ==
    \E i \in 1..(Len(u) - 1) : u[i] = Domain /\ u[i + 1] = Marker

\* str.split(sep): the segments between the occurrences of sep
RECURSIVE PySplit(_, _)
PySplit(s, sep) ==
    IF s = <<>> THEN << <<>> >>
    ELSE LET rest == PySplit(Tail(s), sep)
         IN  IF Head(s) = sep
             THEN << <<>> >> \o rest
             ELSE << <<Head(s)>> \o rest[1] >> \o Tail(rest)

\* ', '.join(names)  (line 98)
RECURSIVE JoinArtists(_)
JoinArtists(a) ==
    IF a = <<>> THEN ""
    ELSE IF Len(a) = 1 THEN a[1]
    ELSE a[1] \o ", " \o JoinArtists(Tail(a))

\* f"{name} - {artists}"  (line 99)
Descriptor(t) == t.name \o " - " \o JoinArtists(t.artists)

\* Mutant of TrackDataRaw: the scan stops at a None track (break for continue).
RECURSIVE TrackDataRawBreak(_)
TrackDataRawBreak(items) ==
    IF items = <<>> \/ Head(items).none THEN <<>>
    ELSE <<Descriptor(Head(items))>> \o TrackDataRawBreak(Tail(items))

\* track_data_raw  (lines 91-99)
RECURSIVE TrackDataRaw(_)
TrackDataRaw(items) ==
    IF items = <<>> THEN <<>>
    ELSE IF Head(items).none
         THEN TrackDataRaw(Tail(items))
         ELSE <<Descriptor(Head(items))>> \o TrackDataRaw(Tail(items))

\* os.path.exists(filename) and os.path.getsize(filename) > 0  (line 105)
FileExists(f) == f.exists /\ Len(f.rows) > 0

\* the rows the loop at line 112 sees: next(reader, None) took the first
ReaderRows(rows) == IF rows = <<>> THEN <<>> ELSE Tail(rows)

\* Mutant of ReadEntries: the reader takes row[0], the Index column.
ReadEntriesColumn0(rows) ==
    LET rest == ReaderRows(rows)
    IN  { rest[i][1] : i \in { j \in 1..Len(rest) : Len(rest[j]) > 1 } }

\* existing_entries after the read  (lines 108-114)
ReadEntries(rows) ==
    LET rest == ReaderRows(rows)
    IN  { rest[i][2] : i \in { j \in 1..Len(rest) : Len(rest[j]) > 1 } }

\* Mutant of MergeScan: line 120 is missing, the set does not grow in the scan.
RECURSIVE MergeScanNoInsert(_, _, _)
MergeScanNoInsert(raw, seen, new) ==
    IF raw = <<>> THEN [new |-> new, seen |-> seen \cup { new[i] : i \in 1..Len(new) }]
    ELSE IF Head(raw) \notin seen
         THEN MergeScanNoInsert(Tail(raw), seen, Append(new, Head(raw)))
         ELSE MergeScanNoInsert(Tail(raw), seen, new)

\* the scan at lines 116-120: [new |-> new_unique_tracks, seen |-> existing_entries]
RECURSIVE MergeScan(_, _, _)
MergeScan(raw, seen, new) ==
    IF raw = <<>> THEN [new |-> new, seen |-> seen]
    ELSE IF Head(raw) \notin seen
         THEN MergeScan(Tail(raw), seen \cup {Head(raw)}, Append(new, Head(raw)))
         ELSE MergeScan(Tail(raw), seen, new)

\* Mutant of StartIndex: the new tracks are not subtracted from the set size.
StartIndexNoSubtract(fe, entries, new) ==
    IF fe THEN Cardinality(entries) + 1 ELSE 1

\* Mutant of StartIndex: numbering restarts at 1 on every run.
StartIndexAlwaysOne(fe, entries, new) == 1

\* start_index  (lines 131-135)
StartIndex(fe, entries, new) ==
    IF fe THEN Cardinality(entries) - Len(new) + 1 ELSE 1

\* Mutant of HeaderRows: the header is written on every run.
HeaderRowsAlways(fe) == <<HeaderRow>>

\* the header, written only if the file was not there  (lines 126-127)
HeaderRows(fe) == IF fe THEN <<>> ELSE <<HeaderRow>>

\* the rows written by the loop at lines 137-138
NewRows(start, new) ==
    [i \in 1..Len(new) |-> <<ToString(start + i - 1), new[i]>>]

\* Mutant of AppendedFile: the file is opened with mode 'w' and overwritten.
OverwrittenFile(f, fe, entries, new) ==
    [exists |-> TRUE,
     rows |-> HeaderRows(fe) \o NewRows(StartIndex(fe, entries, new), new)]

\* the file after open(filename, mode='a') and the writes  (lines 124-138)
AppendedFile(f, fe, entries, new) ==
    [exists |-> TRUE,
     rows |-> f.rows \o HeaderRows(fe) \o NewRows(StartIndex(fe, entries, new), new)]

\* one page of the playlist, as sp.playlist_tracks / sp.next return it
Page(items, n) ==
    SubSeq(items, (n - 1) * PageSize + 1,
           IF n * PageSize < Len(items) THEN n * PageSize ELSE Len(items))

HasNextPage(items, n) == n * PageSize < Len(items)

-----------------------------------------------------------------------------
(* State *)

Procs == DOMAIN pc

NoPrev == [ok |-> FALSE, total |-> 0]

UnknownRemote == [known |-> FALSE, items |-> <<>>]

InitWith(P, f) ==
    /\ file = f
    /\ remote = UnknownRemote
    /\ pc = [p \in P |-> "idle"]
    /\ url = [p \in P |-> <<>>]
    /\ playlist_id = [p \in P |-> <<>>]
    /\ results_next = [p \in P |-> FALSE]
    /\ page_no = [p \in P |-> 0]
    /\ tracks = [p \in P |-> <<>>]
    /\ file_exists = [p \in P |-> FALSE]
    /\ existing_entries = [p \in P |-> {}]
    /\ new_unique_tracks = [p \in P |-> <<>>]
    /\ outcome = [p \in P |-> "none"]
    /\ report = [p \in P |-> [new |-> 0, total |-> 0]]
    /\ ledger0 = [p \in P |-> AbsentFile]
    /\ read_len = [p \in P |-> 0]
    /\ prev = [p \in P |-> NoPrev]

\* The locals of a fresh call.
ResetLocals(p) ==
    /\ results_next' = [results_next EXCEPT ![p] = FALSE]
    /\ page_no' = [page_no EXCEPT ![p] = 0]
    /\ tracks' = [tracks EXCEPT ![p] = <<>>]
    /\ file_exists' = [file_exists EXCEPT ![p] = FALSE]
    /\ existing_entries' = [existing_entries EXCEPT ![p] = {}]
    /\ new_unique_tracks' = [new_unique_tracks EXCEPT ![p] = <<>>]

\* Lines 145-146 and 64-75: the URL is read, validated and the ID cut out.
Start(p, U) ==
    /\ pc[p] = "idle"
    /\ outcome[p] = "none"
    /\ \E u \in U :
         /\ url' = [url EXCEPT ![p] = u]
         /\ IF ~HasMarker(u)
            THEN /\ outcome' = [outcome EXCEPT ![p] = "InvalidUrlError"]
                 /\ playlist_id' = [playlist_id EXCEPT ![p] = <<>>]
                 /\ pc' = [pc EXCEPT ![p] = "done"]
            ELSE LET parts == PySplit(u, Marker)
                 IN  IF Len(parts) < 2          \* IndexError (line 73)
                     THEN /\ outcome' = [outcome EXCEPT ![p] = "MalformedIdError"]
                          /\ playlist_id' = [playlist_id EXCEPT ![p] = <<>>]
                          /\ pc' = [pc EXCEPT ![p] = "done"]
                     ELSE /\ outcome' = [outcome EXCEPT ![p] = "none"]
                          /\ playlist_id' =
                               [playlist_id EXCEPT ![p] = PySplit(parts[2], Query)[1]]
                          /\ pc' = [pc EXCEPT ![p] = "fetch"]
    /\ ledger0' = [ledger0 EXCEPT ![p] = file]
    /\ UNCHANGED <<file, remote, results_next, page_no, tracks, file_exists,
                   existing_entries, new_unique_tracks, report, read_len, prev>>

\* The control point after a page: the while test at line 83.
AfterPage(p, more) ==
    /\ results_next' = [results_next EXCEPT ![p] = more]
    /\ pc' = [pc EXCEPT ![p] = IF more THEN "paging" ELSE "read"]

\* Lines 79-80: sp.playlist_tracks(playlist_id) returns the first page of
\* what the playlist holds now (any playlist of PL if it was edited).  The
\* service is modelled as one playlist, whatever the ID asked for.
FetchFirst(p, PL) ==
    /\ pc[p] = "fetch"
    /\ \E r \in (IF remote.known THEN {remote.items} ELSE PL) :
         /\ remote' = [known |-> TRUE, items |-> r]
         /\ tracks' = [tracks EXCEPT ![p] = Page(r, 1)]
         /\ AfterPage(p, HasNextPage(r, 1))
    /\ page_no' = [page_no EXCEPT ![p] = 1]
    /\ UNCHANGED <<file, url, playlist_id, file_exists, existing_entries,
                   new_unique_tracks, outcome, report, ledger0, read_len, prev>>

\* Lines 83-85: sp.next(results) returns the next page.
FetchNext(p) ==
    /\ pc[p] = "paging"
    /\ results_next[p]
    /\ tracks' = [tracks EXCEPT ![p] =
                    tracks[p] \o Page(remote.items, page_no[p] + 1)]
    /\ page_no' = [page_no EXCEPT ![p] = page_no[p] + 1]
    /\ AfterPage(p, HasNextPage(remote.items, page_no[p] + 1))
    /\ UNCHANGED <<file, remote, url, playlist_id, file_exists, existing_entries,
                   new_unique_tracks, outcome, report, ledger0, read_len, prev>>

\* Mutant of FetchFail: the ledger was opened for appending before the fetch.
FetchFailAfterOpen(p) ==
    /\ pc[p] \in {"fetch", "paging"}
    /\ outcome' = [outcome EXCEPT ![p] = "FetchError"]
    /\ pc' = [pc EXCEPT ![p] = "done"]
    /\ file' = [exists |-> TRUE, rows |-> file.rows]
    /\ UNCHANGED <<remote, locals, report, ledger0, read_len, prev>>

\* Lines 86-89: the collaborator raises SpotifyException on either call.
FetchFail(p) ==
    /\ pc[p] \in {"fetch", "paging"}
    /\ outcome' = [outcome EXCEPT ![p] = "FetchError"]
    /\ pc' = [pc EXCEPT ![p] = "done"]
    /\ UNCHANGED <<file, remote, locals, report, ledger0, read_len, prev>>

\* Lines 91-114: the descriptors are formatted (TrackDataRaw is recomputed
\* from tracks where it is used) and the ledger, if there, is read.
ReadLedger(p) ==
    /\ pc[p] = "read"
    /\ file_exists' = [file_exists EXCEPT ![p] = FileExists(file)]
    /\ existing_entries' = [existing_entries EXCEPT ![p] =
                              IF FileExists(file) THEN ReadEntries(file.rows) ELSE {}]
    /\ read_len' = [read_len EXCEPT ![p] = Len(file.rows)]
    /\ pc' = [pc EXCEPT ![p] = "merge"]
    /\ UNCHANGED <<file, remote, url, playlist_id, results_next, page_no, tracks,
                   new_unique_tracks, outcome, report, ledger0, prev>>

\* Lines 116-120: the batch is merged against the entries read, in memory.
MergeTracks(p) ==
    /\ pc[p] = "merge"
    /\ LET m == MergeScan(TrackDataRaw(tracks[p]), existing_entries[p], <<>>)
       IN  /\ existing_entries' = [existing_entries EXCEPT ![p] = m.seen]
           /\ new_unique_tracks' = [new_unique_tracks EXCEPT ![p] = m.new]
    /\ pc' = [pc EXCEPT ![p] = "append"]
    /\ UNCHANGED <<file, remote, url, playlist_id, results_next, page_no, tracks,
                   file_exists, outcome, report, ledger0, read_len, prev>>

\* Lines 122-141: the file is opened for appending, the header and the new
\* rows are written, the counts are printed.  The rows of one run reach the
\* file together, when the with block closes it; the test at line 105 and the
\* read at lines 109-114 are one step too, a file that appears between them
\* being read as it would be by a later read.
AppendRows(p) ==
    /\ pc[p] = "append"
    /\ file' = AppendedFile(file, file_exists[p], existing_entries[p],
                            new_unique_tracks[p])
    /\ report' = [report EXCEPT ![p] =
                    [new |-> Len(new_unique_tracks[p]),
                     total |-> Cardinality(existing_entries[p])]]
    /\ outcome' = [outcome EXCEPT ![p] = "ok"]
    /\ pc' = [pc EXCEPT ![p] = "done"]
    /\ UNCHANGED <<remote, locals, ledger0, read_len, prev>>

\* Line 146 returns and the process ends; the next invocation starts afresh.
Exit(p) ==
    /\ pc[p] = "done"
    /\ pc' = [pc EXCEPT ![p] = "idle"]
    /\ prev' = [prev EXCEPT ![p] =
                  IF outcome[p] = "ok" /\ remote.known /\ remote.items = tracks[p]
                  THEN [ok |-> TRUE, total |-> report[p].total]
                  ELSE NoPrev]
    /\ outcome' = [outcome EXCEPT ![p] = "none"]
    /\ report' = [report EXCEPT ![p] = [new |-> 0, total |-> 0]]
    /\ url' = [url EXCEPT ![p] = <<>>]
    /\ playlist_id' = [playlist_id EXCEPT ![p] = <<>>]
    /\ ResetLocals(p)
    /\ ledger0' = [ledger0 EXCEPT ![p] = AbsentFile]
    /\ read_len' = [read_len EXCEPT ![p] = 0]
    /\ UNCHANGED <<file, remote>>

\* The playlist is edited at the service (not in the middle of a pagination);
\* what it holds then is seen by the next fetch.
RemoteChange ==
    /\ remote.known
    /\ \A p \in Procs : pc[p] # "paging"
    /\ remote' = UnknownRemote
    /\ prev' = [p \in Procs |-> NoPrev]
    /\ UNCHANGED <<file, pc, locals, outcome, report, ledger0, read_len>>

\* Any invocation takes its next step, or the playlist is edited.
NextWith(U, PL) ==
    \/ \E p \in Procs : Start(p, U)
    \/ \E p \in Procs : FetchFirst(p, PL)
    \/ \E p \in Procs : FetchNext(p)
    \/ \E p \in Procs : FetchFail(p)
    \/ \E p \in Procs : ReadLedger(p)
    \/ \E p \in Procs : MergeTracks(p)
    \/ \E p \in Procs : AppendRows(p)
    \/ \E p \in Procs : Exit(p)
    \/ RemoteChange

-----------------------------------------------------------------------------
(* Specifications *)

\* Sequential runs, starting with no ledger file.
Init == InitWith({1}, AbsentFile)
Next == NextWith(SomeUrls, Playlists)
Spec == Init /\ [][Next]_vars

\* Sequential runs over every URL of the bounded alphabet.
UrlInit == InitWith({1}, AbsentFile)
UrlNext == NextWith(AllUrls, UrlPlaylists)
UrlSpec == UrlInit /\ [][UrlNext]_vars

\* Sequential runs against a ledger file of arbitrary content.
LedgerInit == \E f \in Ledgers : InitWith({1}, f)
LedgerNext == NextWith({GoodUrl}, LedgerPlaylists)
LedgerSpec == LedgerInit /\ [][LedgerNext]_vars

\* Two invocations running against the same ledger file.
ConcInit == InitWith({1, 2}, AbsentFile)
ConcNext == NextWith({GoodUrl}, ConcPlaylists)
ConcSpec == ConcInit /\ [][ConcNext]_vars

-----------------------------------------------------------------------------
(* Vocabulary of the properties *)

\* The data rows of a ledger: its rows, less the header row if it leads.
LedgerDataRows(f) ==
    IF f.rows # <<>> /\ f.rows[1] = HeaderRow THEN Tail(f.rows) ELSE f.rows

\* The Track column of the data rows that have one.
RecordedDescriptors(f) ==
    LET d == LedgerDataRows(f)
    IN  { d[i][2] : i \in { j \in 1..Len(d) : Len(d[j]) >= 2 } }

\* Some descriptor stands in two data rows.
RepeatedDescriptor(f) ==
    LET d == LedgerDataRows(f)
    IN  \E i, j \in 1..Len(d) :
           i # j /\ Len(d[i]) >= 2 /\ Len(d[j]) >= 2 /\ d[i][2] = d[j][2]

\* Some index stands on two data rows.
RepeatedIndex(f) ==
    LET d == LedgerDataRows(f)
    IN  \E i, j \in 1..Len(d) :
           i # j /\ d[i] # HeaderRow /\ d[j] # HeaderRow
                 /\ Len(d[i]) >= 1 /\ Len(d[j]) >= 1 /\ d[i][1] = d[j][1]

\* The run of invocation p has ended with the export done.
Exported(p) == pc[p] = "done" /\ outcome[p] = "ok"

\* The run of invocation p has ended with one of the three errors.
Aborted(p) ==
    pc[p] = "done" /\
    outcome[p] \in {"InvalidUrlError", "MalformedIdError", "FetchError"}

\* Items i < j of the batch are tracks with the same descriptor.
BatchRepeats(items) ==
    \E i, j \in 1..Len(items) :
       i < j /\ ~items[i].none /\ ~items[j].none
             /\ Descriptor(items[i]) = Descriptor(items[j])

\* The positions of the batch that the merge is to keep: a track, not
\* recorded in E, and no earlier position holds the same descriptor.
KeptPositions(items, E) ==
    { i \in 1..Len(items) :
        /\ ~items[i].none
        /\ Descriptor(items[i]) \notin E
        /\ \A j \in 1..(i - 1) :
              items[j].none \/ Descriptor(items[j]) # Descriptor(items[i]) }

\* new lists the descriptors at the kept positions, in batch order.
IsMergeResult(new, items, E) ==
    LET K == KeptPositions(items, E)
    IN  /\ Len(new) = Cardinality(K)
        /\ \A i \in K : new[Cardinality({ j \in K : j <= i })] = Descriptor(items[i])

\* The last n rows of the file.
LastRows(f, n) == SubSeq(f.rows, Len(f.rows) - n + 1, Len(f.rows))

\* The Index written on the first row that the run of p appended.
FirstNewIndex(p) == LastRows(file, Len(new_unique_tracks[p]))[1][1]

\* The number of (Index, Track) entries of a ledger.
EntryCount(f) ==
    LET d == LedgerDataRows(f)
    IN  Cardinality({ j \in 1..Len(d) : Len(d[j]) >= 2 })

\* The distinct Track values of the rows after the first.
DistinctAfterFirst(f) ==
    { f.rows[i][2] : i \in { j \in 2..Len(f.rows) : Len(f.rows[j]) >= 2 } }

\* The part of a URL after the first "open.spotify.com/playlist/", up to the
\* next "?" or the end.
IdSegment(u) ==
    LET at   == CHOOSE i \in 1..(Len(u) - 1) :
                   /\ u[i] = Domain /\ u[i + 1] = Marker
                   /\ \A k \in 1..(i - 1) : ~(u[k] = Domain /\ u[k + 1] = Marker)
        rest == SubSeq(u, at + 2, Len(u))
        qs   == { k \in 1..Len(rest) : rest[k] = Query }
    IN  IF qs = {} THEN rest
        ELSE SubSeq(rest, 1, (CHOOSE k \in qs : \A m \in qs : k <= m) - 1)

\* The runs of p and q both read the ledger before either appended to it, and
\* both appended rows.
Interleaved(p, q) ==
    /\ p # q
    /\ Exported(p) /\ Exported(q)
    /\ read_len[p] = read_len[q]
    /\ new_unique_tracks[p] # <<>>
    /\ new_unique_tracks[q] # <<>>

-----------------------------------------------------------------------------
(* Properties *)

\* C1  Ledger uniqueness: after any sequence of export runs from an absent
\* ledger file, every Track Descriptor stands in at most one data row.
C1_LedgerUniqueness == ~RepeatedDescriptor(file)

\* A run whose batch repeated a descriptor and held one already recorded has
\* appended a row to a ledger that had data rows.
C1_Witness ==
    \E p \in Procs :
       /\ Exported(p)
       /\ BatchRepeats(tracks[p])
       /\ \E i \in 1..Len(tracks[p]) :
             ~tracks[p][i].none /\
             Descriptor(tracks[p][i]) \in RecordedDescriptors(ledger0[p])
       /\ new_unique_tracks[p] # <<>>

\* C2  Index continuity: after any sequence of export runs from an absent
\* ledger file, the Index column of the data rows reads 1, 2, ..., N from top
\* to bottom, N being the number of unique tracks in the ledger.
C2_IndexContinuity ==
    LET d == LedgerDataRows(file)
    IN  /\ \A i \in 1..Len(d) : Len(d[i]) = 2 /\ d[i][1] = ToString(i)
        /\ Len(d) = Cardinality(RecordedDescriptors(file))

\* A run appended two rows or more to a ledger that an earlier run had left
\* with the header only (that run appended no row).
C2_Witness ==
    \E p \in Procs :
       /\ Exported(p)
       /\ file_exists[p]
       /\ ledger0[p].rows = <<HeaderRow>>
       /\ Len(new_unique_tracks[p]) >= 2

\* C3  Idempotence: a run that follows a completed run with the same batch
\* appends no row and reports the same total.
C3_Idempotence ==
    \A p \in Procs :
       (Exported(p) /\ prev[p].ok) =>
          /\ new_unique_tracks[p] = <<>>
          /\ report[p].new = 0
          /\ report[p].total = prev[p].total
          /\ file = ledger0[p]

\* The second of two runs with the same batch, which holds tracks, has ended;
\* the ledger holds two tracks or more.
C3_Witness ==
    \E p \in Procs :
       /\ Exported(p)
       /\ prev[p].ok
       /\ prev[p].total >= 2
       /\ \E i \in 1..Len(tracks[p]) : ~tracks[p][i].none

\* C4  Merge result: the New Unique Tracks of a run are the descriptors of the
\* fetched items that are tracks, are not recorded in the ledger and are the
\* first of their descriptor in the batch, in fetch order; they are written
\* with the indices that follow the ledger's entries, a null item taking none.
C4_MergeResult ==
    \A p \in Procs :
       (pc[p] = "append" \/ Exported(p)) =>
          /\ IsMergeResult(new_unique_tracks[p], tracks[p],
                           RecordedDescriptors(ledger0[p]))
          /\ Exported(p) =>
                LET n == Len(new_unique_tracks[p])
                    base == Len(LedgerDataRows(ledger0[p]))
                IN  /\ Len(file.rows) >= n
                    /\ LastRows(file, n) =
                         [k \in 1..n |->
                            <<ToString(base + k), new_unique_tracks[p][k]>>]

\* A batch with a null item ahead of a kept track and with a repeated
\* descriptor has been exported, two rows or more being appended.
C4_Witness ==
    \E p \in Procs :
       /\ Exported(p)
       /\ BatchRepeats(tracks[p])
       /\ \E i, j \in 1..Len(tracks[p]) :
             i < j /\ tracks[p][i].none /\
             j \in KeptPositions(tracks[p], RecordedDescriptors(ledger0[p]))
       /\ Len(new_unique_tracks[p]) >= 2

\* C6  Abort without mutation: a run that ends with an invalid-URL, a
\* malformed-ID or a fetch error leaves the ledger as it was when the run
\* started, and does not create it.
C6_AbortLeavesLedger ==
    \A p \in Procs : Aborted(p) => file = ledger0[p]

\* The collaborator raised on a page after the first, the ledger holding rows.
C6_Witness ==
    \E p \in Procs :
       /\ Aborted(p)
       /\ outcome[p] = "FetchError"
       /\ page_no[p] >= 1
       /\ Len(file.rows) >= 2

\* C9  Append-only: the file after a run is the file before it, then the
\* header row if the file was absent or empty, then the newly appended rows;
\* the header stands exactly once, as the first row.
C9_AppendOnly ==
    /\ file.exists =>
          /\ file.rows # <<>>
          /\ file.rows[1] = HeaderRow
          /\ \A i \in 2..Len(file.rows) : file.rows[i] # HeaderRow
    /\ \A p \in Procs :
          /\ pc[p] \in {"fetch", "paging", "read", "merge", "append"} =>
                file = ledger0[p]
          /\ Exported(p) =>
                LET old == ledger0[p].rows
                    hdr == IF old = <<>> THEN <<HeaderRow>> ELSE <<>>
                    n   == Len(new_unique_tracks[p])
                IN  /\ file.exists
                    /\ Len(file.rows) = Len(old) + Len(hdr) + n
                    /\ SubSeq(file.rows, 1, Len(old) + Len(hdr)) = old \o hdr
                    /\ \A k \in 1..n :
                          /\ Len(LastRows(file, n)[k]) = 2
                          /\ LastRows(file, n)[k][2] = new_unique_tracks[p][k]

\* A run appended rows to a ledger that already held data rows.
C9_Witness ==
    \E p \in Procs :
       /\ Exported(p)
       /\ ledger0[p].exists
       /\ Len(ledger0[p].rows) >= 2
       /\ new_unique_tracks[p] # <<>>

\* C5 (as stated)  Starting index: where the ledger existed and was not empty
\* (stated here for ledgers that begin with the header row), the first new
\* row's index is (set size after merge) - (number of new tracks) + 1, and
\* that is one past the count of the ledger's entries; otherwise it is 1.
C5_StartIndexCountsEntries ==
    \A p \in Procs :
       (Exported(p) /\ new_unique_tracks[p] # <<>>) =>
          IF ledger0[p].exists /\ ledger0[p].rows # <<>>
          THEN ledger0[p].rows[1] = HeaderRow =>
                  /\ FirstNewIndex(p) =
                       ToString(Cardinality(existing_entries[p])
                                  - Len(new_unique_tracks[p]) + 1)
                  /\ FirstNewIndex(p) = ToString(EntryCount(ledger0[p]) + 1)
          ELSE FirstNewIndex(p) = "1"

\* C5 (amended)  Starting index: where the ledger existed and was not empty,
\* the first new row's index is (set size after merge) - (number of new
\* tracks) + 1, and that is one past the number of distinct Track values in
\* the rows after the first; otherwise it is 1.
C5_StartIndexCountsDistinct ==
    \A p \in Procs :
       (Exported(p) /\ new_unique_tracks[p] # <<>>) =>
          IF ledger0[p].exists /\ ledger0[p].rows # <<>>
          THEN /\ FirstNewIndex(p) =
                    ToString(Cardinality(existing_entries[p])
                               - Len(new_unique_tracks[p]) + 1)
               /\ FirstNewIndex(p) =
                    ToString(Cardinality(DistinctAfterFirst(ledger0[p])) + 1)
          ELSE FirstNewIndex(p) = "1"

\* A run appended rows to a ledger that began with the header and held a
\* descriptor twice.
C5_Witness ==
    \E p \in Procs :
       /\ Exported(p)
       /\ new_unique_tracks[p] # <<>>
       /\ ledger0[p].rows # <<>>
       /\ ledger0[p].rows[1] = HeaderRow
       /\ RepeatedDescriptor(ledger0[p])

\* C7  Malformed ID rejection: a run on a URL that holds the playlist marker
\* with an empty ID segment ends with MalformedIdError, before any fetch.
C7_MalformedIdRejected ==
    \A p \in Procs :
       (pc[p] # "idle" /\ HasMarker(url[p]) /\ IdSegment(url[p]) = <<>>) =>
          (pc[p] = "done" /\ outcome[p] = "MalformedIdError")

\* C8  Ledger reader: for a ledger that exists and is not empty, the
\* Existing-Entries Set read is the set of Track values of all data rows with
\* two columns or more, the header being skipped only if it is there.
C8_ReaderTakesEveryDataRow ==
    \A p \in Procs :
       (pc[p] = "merge" /\ file_exists[p]) =>
          existing_entries[p] = RecordedDescriptors(file)

\* C10  Concurrent invocations are unsafe: two runs that both read the ledger
\* before either appended, and both appended, leave an Index on two rows, and
\* a Track Descriptor in two rows if both appended it.
C10_InterleavingBreaksLedger ==
    \A p, q \in Procs :
       Interleaved(p, q) =>
          /\ RepeatedIndex(file)
          /\ (\E i \in 1..Len(new_unique_tracks[p]) :
              \E j \in 1..Len(new_unique_tracks[q]) :
                 new_unique_tracks[p][i] = new_unique_tracks[q][j])
                => RepeatedDescriptor(file)

\* Two interleaved runs have left a descriptor in two rows and an index on
\* two rows.
C10_Witness ==
    \E p, q \in Procs :
       /\ Interleaved(p, q)
       /\ RepeatedDescriptor(file)
       /\ RepeatedIndex(file)

=============================================================================
